---- MODULE Spec2Model ----
(***************************************************************************)
(* Model of denoise_audio_DeepFilterNet.py: a command-line run that parses *)
(* its arguments, initialises a DeepFilterNet model, reconciles the sample *)
(* rate (optionally through ffmpeg and a temporary file), loads, enhances  *)
(* and saves the audio, and cleans the temporary file up.                  *)
(*                                                                         *)
(* A file name is a sequence of tokens: "." or a non-empty dot-free chunk. *)
(* A path is a record [parent, name].  Every call into a library or the    *)
(* operating system is a step whose outcome (return or raise) is chosen    *)
(* nondeterministically.                                                   *)
(***************************************************************************)
EXTENDS Integers, Sequences, FiniteSets, TLC

VARIABLES pc, argv, fs, input_path, model_name, output_path, target_sr,
          original_sr, audio_to_load, temp_audio_path, temp_path, exc,
          sysexit, exitCode, calls, spawned, procs, tmpCreated, written,
          removed, loaded

vars == <<pc, argv, fs, input_path, model_name, output_path, target_sr,
          original_sr, audio_to_load, temp_audio_path, temp_path, exc,
          sysexit, exitCode, calls, spawned, procs, tmpCreated, written,
          removed, loaded>>

(* ---------------------------- bounds ---------------------------------- *)
MaxArgs == 2

(* --------------------------- constants -------------------------------- *)
UnknownRate == -1

NoCode == -1

DenoiseSuffix == "_denoise_DeepFilterNet"

DefaultModel == "DeepFilterNet2"

ModelChoices == {"DeepFilterNet", "DeepFilterNet2", "DeepFilterNet3"}

ModelNames == ModelChoices \cup {"DeepFilterNet4"}

Rates == {16000, 48000}

ProbeRates == {16000, 44100, 48000}

TmpDir == "tmpdir"

TmpIds == {"r1", "r2"}

NoPath == [parent |-> "", name |-> <<>>]

MkPath(d, n) == [parent |-> d, name |-> n]

(* the files the command line may name; MissingWav does not exist *)
Wav == MkPath("d", <<"a", ".", "wav">>)

WavOut == MkPath("d", <<"a", DenoiseSuffix, ".", "wav">>)

TwoDots == MkPath("d", <<"a", ".", "b", ".", "wav">>)

Hidden == MkPath("d", <<".", "rc">>)

NoExt == MkPath("d", <<"a">>)

TrailingDot == MkPath("d", <<"a", ".">>)

OldTemp == MkPath(TmpDir, <<"tmp", "r1", ".", "wav">>)

MissingWav == MkPath("d", <<"x", ".", "wav">>)

InitFiles == {Wav, WavOut, TwoDots, Hidden, NoExt, TrailingDot, OldTemp}

ArgPaths == InitFiles \cup {MissingWav}

PosTok(p) == [kind |-> "pos", path |-> p, model |-> ""]

ModelTok(m) == [kind |-> "model", path |-> NoPath, model |-> m]

HelpTok == [kind |-> "help", path |-> NoPath, model |-> ""]

Tokens == {PosTok(p) : p \in ArgPaths} \cup {ModelTok(m) : m \in ModelNames}
            \cup {HelpTok}

ArgVectors == UNION {[1..n -> Tokens] : n \in 0..MaxArgs}

(* ------------------------- pure functions ----------------------------- *)
(* index of the last "." of a name, 0 when there is none (str.rfind + 1) *)
RFindDot(n) ==
  LET I == {i \in 1..Len(n) : n[i] = "."}
  IN  IF I = {} THEN 0 ELSE CHOOSE i \in I : \A j \in I : j <= i

(* pathlib: the suffix is name[i:] when the last dot is neither the first
   nor the last character, else empty *)
HasSuffix(n) == LET i == RFindDot(n) IN 1 < i /\ i < Len(n)

Suffix(n) == IF HasSuffix(n) THEN SubSeq(n, RFindDot(n), Len(n)) ELSE <<>>

Stem(n) == IF HasSuffix(n) THEN SubSeq(n, 1, RFindDot(n) - 1) ELSE n

OutputPathBuggy(p) ==
  MkPath(p.parent, Stem(p.name) \o Suffix(p.name) \o <<DenoiseSuffix>>)

OutputPath(p) ==
  MkPath(p.parent, Stem(p.name) \o <<DenoiseSuffix>> \o Suffix(p.name))

file_exists_NoCheck(p, files) == TRUE

file_exists(p, files) == p \in files

ChoiceOkAny(m) == TRUE

ChoiceOk(m) == m \in ModelChoices

(* argparse, left to right from token i: -h exits at once, a rejected
   value is an error at once, a second positional is kept as unrecognised
   and reported, like a missing positional, after the last token *)
RECURSIVE ParseFrom(_, _, _, _, _, _)
ParseFrom(args, files, i, inp, mdl, extra) ==
  IF i > Len(args)
  THEN IF inp = NoPath \/ extra
       THEN [status |-> "error", input_path |-> NoPath, model_name |-> mdl]
       ELSE [status |-> "ok", input_path |-> inp, model_name |-> mdl]
  ELSE LET t == args[i] IN
       CASE t.kind = "help" ->
              [status |-> "help", input_path |-> NoPath, model_name |-> mdl]
         [] t.kind = "model" ->
              IF ChoiceOk(t.model)
              THEN ParseFrom(args, files, i + 1, inp, t.model, extra)
              ELSE [status |-> "error", input_path |-> NoPath,
                    model_name |-> mdl]
         [] OTHER ->
              IF inp # NoPath
              THEN ParseFrom(args, files, i + 1, inp, mdl, TRUE)
              ELSE IF file_exists(t.path, files)
                   THEN ParseFrom(args, files, i + 1, t.path, mdl, extra)
                   ELSE [status |-> "error", input_path |-> NoPath,
                         model_name |-> mdl]

parse_args(args, files) == ParseFrom(args, files, 1, NoPath, DefaultModel, FALSE)

NeedsResampleLess(orig, target) == orig < target

NeedsResample(orig, target) == orig # target

TempName(k, p) == MkPath(TmpDir, <<"tmp", k>> \o Suffix(p.name))

(* ------------------------------ state --------------------------------- *)
Init ==
  /\ pc = "import"
  /\ argv \in ArgVectors
  /\ fs = InitFiles
  /\ input_path = NoPath
  /\ model_name = ""
  /\ output_path = NoPath
  /\ target_sr = 0
  /\ original_sr = 0
  /\ audio_to_load = NoPath
  /\ temp_audio_path = NoPath
  /\ temp_path = NoPath
  /\ exc = "None"
  /\ sysexit = NoCode
  /\ exitCode = NoCode
  /\ calls = {}
  /\ spawned = 0
  /\ procs = 0
  /\ tmpCreated = {}
  /\ written = {}
  /\ removed = {}
  /\ loaded = NoPath

Exit(code) == pc' = "done" /\ exitCode' = code

Raise(e) == pc' = "except" /\ exc' = e

(* lines 28-38 *)
ImportOk ==
  /\ pc = "import"
  /\ pc' = "parse_args"
  /\ UNCHANGED <<argv, fs, input_path, model_name, output_path, target_sr,
                 original_sr, audio_to_load, temp_audio_path, temp_path, exc,
                 sysexit, exitCode, calls, spawned, procs, tmpCreated,
                 written, removed, loaded>>

ImportFail ==
  /\ pc = "import"
  /\ exc' = "ImportError"
  /\ Exit(1)
  /\ UNCHANGED <<argv, fs, input_path, model_name, output_path, target_sr,
                 original_sr, audio_to_load, temp_audio_path, temp_path,
                 sysexit, calls, spawned, procs, tmpCreated,
                 written, removed, loaded>>

(* lines 94-128 *)
ParseArgs ==
  /\ pc = "parse_args"
  /\ LET r == parse_args(argv, fs) IN
       CASE r.status = "help" ->
              /\ Exit(0)
              /\ UNCHANGED <<input_path, model_name, output_path, exc>>
         [] r.status = "error" ->
              /\ Exit(2)
              /\ exc' = "ArgumentError"
              /\ UNCHANGED <<input_path, model_name, output_path>>
         [] OTHER ->
              /\ pc' = "init_df"
              /\ input_path' = r.input_path
              /\ model_name' = r.model_name
              /\ output_path' = OutputPath(r.input_path)
              /\ UNCHANGED <<exc, exitCode>>
  /\ temp_audio_path' = NoPath
  /\ UNCHANGED <<argv, fs, target_sr, original_sr, audio_to_load, temp_path,
                 sysexit, calls, spawned, procs, tmpCreated, written,
                 removed, loaded>>

(* line 132-133: init_df returns the model state, or raises *)
InitDfOk ==
  /\ pc = "init_df"
  /\ \E sr \in Rates : target_sr' = sr
  /\ calls' = calls \cup {"init_df"}
  /\ pc' = "info"
  /\ UNCHANGED <<argv, fs, input_path, model_name, output_path,
                 original_sr, audio_to_load, temp_audio_path, temp_path,
                 exc, sysexit, exitCode, spawned, procs, tmpCreated,
                 written, removed, loaded>>

InitDfRaise ==
  /\ pc = "init_df"
  /\ calls' = calls \cup {"init_df"}
  /\ Raise("init_df")
  /\ UNCHANGED <<argv, fs, input_path, model_name, output_path, target_sr,
                 original_sr, audio_to_load, temp_audio_path, temp_path,
                 sysexit, exitCode, spawned, procs, tmpCreated, written,
                 removed, loaded>>

(* lines 136-155 up to the call of resample_with_ffmpeg: the probe, with
   -1 for a probe that raised, then the comparison with the model's rate *)
Probe ==
  /\ pc = "info"
  /\ \E sr \in ProbeRates \cup {UnknownRate} : original_sr' = sr
  /\ calls' = calls \cup {"torchaudio.info"}
  /\ audio_to_load' = input_path
  /\ pc' = IF NeedsResample(original_sr', target_sr)
           THEN "ffmpeg_version" ELSE "load_audio"
  /\ UNCHANGED <<argv, fs, input_path, model_name, output_path, target_sr,
                 temp_audio_path, temp_path, exc, sysexit, exitCode,
                 spawned, procs, tmpCreated, written, removed, loaded>>

(* lines 61-66: subprocess.run(["ffmpeg", "-version"]) cannot start the
   program; FileNotFoundError is caught and None returned (lines 153-155) *)
VersionNotFound ==
  /\ pc = "ffmpeg_version"
  /\ calls' = calls \cup {"ffmpeg"}
  /\ pc' = "load_audio"
  /\ UNCHANGED <<argv, fs, input_path, model_name, output_path, target_sr,
                 original_sr, audio_to_load, temp_audio_path, temp_path,
                 exc, sysexit, exitCode, spawned, procs, tmpCreated,
                 written, removed, loaded>>

(* any other OSError of the start (PermissionError) is not caught there *)
VersionOSError ==
  /\ pc = "ffmpeg_version"
  /\ calls' = calls \cup {"ffmpeg"}
  /\ Raise("ffmpeg_version:OSError")
  /\ UNCHANGED <<argv, fs, input_path, model_name, output_path, target_sr,
                 original_sr, audio_to_load, temp_audio_path, temp_path,
                 sysexit, exitCode, spawned, procs, tmpCreated, written,
                 removed, loaded>>

VersionSpawn ==
  /\ pc = "ffmpeg_version"
  /\ calls' = calls \cup {"ffmpeg"}
  /\ spawned' = spawned + 1
  /\ procs' = procs + 1
  /\ pc' = "ffmpeg_version_wait"
  /\ UNCHANGED <<argv, fs, input_path, model_name, output_path, target_sr,
                 original_sr, audio_to_load, temp_audio_path, temp_path,
                 exc, sysexit, exitCode, tmpCreated, written, removed,
                 loaded>>

VersionWaitNoWait ==
  /\ pc = "ffmpeg_version_wait"
  /\ \E ok \in BOOLEAN : pc' = IF ok THEN "mktemp" ELSE "load_audio"
  /\ UNCHANGED <<argv, fs, input_path, model_name, output_path, target_sr,
                 original_sr, audio_to_load, temp_audio_path, temp_path,
                 exc, sysexit, exitCode, calls, spawned, procs, tmpCreated,
                 written, removed, loaded>>

(* subprocess.run returns after the child has exited: status 0, or
   CalledProcessError, caught at line 64 *)
VersionWait ==
  /\ pc = "ffmpeg_version_wait"
  /\ procs' = procs - 1
  /\ \E ok \in BOOLEAN : pc' = IF ok THEN "mktemp" ELSE "load_audio"
  /\ UNCHANGED <<argv, fs, input_path, model_name, output_path, target_sr,
                 original_sr, audio_to_load, temp_audio_path, temp_path,
                 exc, sysexit, exitCode, calls, spawned, tmpCreated,
                 written, removed, loaded>>

(* lines 70-71: a new file, under a name that no file has *)
MkTempOk ==
  /\ pc = "mktemp"
  /\ \E k \in TmpIds :
       /\ TempName(k, input_path) \notin fs
       /\ temp_path' = TempName(k, input_path)
  /\ fs' = fs \cup {temp_path'}
  /\ tmpCreated' = tmpCreated \cup {temp_path'}
  /\ pc' = "ffmpeg_convert"
  /\ UNCHANGED <<argv, input_path, model_name, output_path, target_sr,
                 original_sr, audio_to_load, temp_audio_path, exc, sysexit,
                 exitCode, calls, spawned, procs, written, removed, loaded>>

MkTempRaise ==
  /\ pc = "mktemp"
  /\ Raise("mktemp:OSError")
  /\ UNCHANGED <<argv, fs, input_path, model_name, output_path, target_sr,
                 original_sr, audio_to_load, temp_audio_path, temp_path,
                 sysexit, exitCode, calls, spawned, procs, tmpCreated,
                 written, removed, loaded>>

(* lines 82-83: the conversion cannot be started; only CalledProcessError
   is caught at line 86 *)
ConvertOSError ==
  /\ pc = "ffmpeg_convert"
  /\ Raise("ffmpeg_convert:OSError")
  /\ UNCHANGED <<argv, fs, input_path, model_name, output_path, target_sr,
                 original_sr, audio_to_load, temp_audio_path, temp_path,
                 sysexit, exitCode, calls, spawned, procs, tmpCreated,
                 written, removed, loaded>>

ConvertSpawn ==
  /\ pc = "ffmpeg_convert"
  /\ spawned' = spawned + 1
  /\ procs' = procs + 1
  /\ pc' = "ffmpeg_convert_wait"
  /\ UNCHANGED <<argv, fs, input_path, model_name, output_path, target_sr,
                 original_sr, audio_to_load, temp_audio_path, temp_path,
                 exc, sysexit, exitCode, calls, tmpCreated, written,
                 removed, loaded>>

ConvertOkWritesInput ==
  /\ pc = "ffmpeg_convert_wait"
  /\ procs' = procs - 1
  /\ written' = written \cup {input_path}
  /\ audio_to_load' = temp_path
  /\ temp_audio_path' = temp_path
  /\ pc' = "load_audio"
  /\ UNCHANGED <<argv, fs, input_path, model_name, output_path, target_sr,
                 original_sr, temp_path, exc, sysexit, exitCode, calls,
                 spawned, tmpCreated, removed, loaded>>

(* lines 83-85 and 150-152: ffmpeg wrote its last argument, temp_path *)
ConvertOk ==
  /\ pc = "ffmpeg_convert_wait"
  /\ procs' = procs - 1
  /\ written' = written \cup {temp_path}
  /\ audio_to_load' = temp_path
  /\ temp_audio_path' = temp_path
  /\ pc' = "load_audio"
  /\ UNCHANGED <<argv, fs, input_path, model_name, output_path, target_sr,
                 original_sr, temp_path, exc, sysexit, exitCode, calls,
                 spawned, tmpCreated, removed, loaded>>

(* lines 86-90 and 153-155: ffmpeg failed, having left the temporary file
   in place or not *)
ConvertFailed ==
  /\ pc = "ffmpeg_convert_wait"
  /\ procs' = procs - 1
  /\ \E kept \in BOOLEAN :
       /\ written' = IF kept THEN written \cup {temp_path} ELSE written
       /\ removed' = IF kept THEN removed \cup {temp_path} ELSE removed
  /\ fs' = fs \ {temp_path}
  /\ pc' = "load_audio"
  /\ UNCHANGED <<argv, input_path, model_name, output_path, target_sr,
                 original_sr, audio_to_load, temp_audio_path, temp_path,
                 exc, sysexit, exitCode, calls, spawned, tmpCreated,
                 loaded>>

(* line 83, text=True: the child has exited and its captured output does
   not decode; UnicodeDecodeError is not caught at line 86 *)
ConvertDecodeError ==
  /\ pc = "ffmpeg_convert_wait"
  /\ procs' = procs - 1
  /\ written' = written \cup {temp_path}
  /\ Raise("ffmpeg_convert:UnicodeDecodeError")
  /\ UNCHANGED <<argv, fs, input_path, model_name, output_path, target_sr,
                 original_sr, audio_to_load, temp_audio_path, temp_path,
                 sysexit, exitCode, calls, spawned, tmpCreated, removed,
                 loaded>>

(* line 160 *)
LoadAudioOk ==
  /\ pc = "load_audio"
  /\ calls' = calls \cup {"load_audio"}
  /\ loaded' = audio_to_load
  /\ pc' = "enhance"
  /\ UNCHANGED <<argv, fs, input_path, model_name, output_path, target_sr,
                 original_sr, audio_to_load, temp_audio_path, temp_path,
                 exc, sysexit, exitCode, spawned, procs, tmpCreated,
                 written, removed>>

LoadAudioRaise ==
  /\ pc = "load_audio"
  /\ calls' = calls \cup {"load_audio"}
  /\ Raise("load_audio")
  /\ UNCHANGED <<argv, fs, input_path, model_name, output_path, target_sr,
                 original_sr, audio_to_load, temp_audio_path, temp_path,
                 sysexit, exitCode, spawned, procs, tmpCreated, written,
                 removed, loaded>>

(* line 166 *)
EnhanceOk ==
  /\ pc = "enhance"
  /\ calls' = calls \cup {"enhance"}
  /\ pc' = "save_audio"
  /\ UNCHANGED <<argv, fs, input_path, model_name, output_path, target_sr,
                 original_sr, audio_to_load, temp_audio_path, temp_path,
                 exc, sysexit, exitCode, spawned, procs, tmpCreated,
                 written, removed, loaded>>

EnhanceRaise ==
  /\ pc = "enhance"
  /\ calls' = calls \cup {"enhance"}
  /\ Raise("enhance")
  /\ UNCHANGED <<argv, fs, input_path, model_name, output_path, target_sr,
                 original_sr, audio_to_load, temp_audio_path, temp_path,
                 sysexit, exitCode, spawned, procs, tmpCreated, written,
                 removed, loaded>>

(* lines 171-173 *)
SaveAudioOk ==
  /\ pc = "save_audio"
  /\ calls' = calls \cup {"save_audio"}
  /\ fs' = fs \cup {output_path}
  /\ written' = written \cup {output_path}
  /\ pc' = "finally"
  /\ UNCHANGED <<argv, input_path, model_name, output_path, target_sr,
                 original_sr, audio_to_load, temp_audio_path, temp_path,
                 exc, sysexit, exitCode, spawned, procs, tmpCreated,
                 removed, loaded>>

SaveAudioRaise ==
  /\ pc = "save_audio"
  /\ calls' = calls \cup {"save_audio"}
  /\ Raise("save_audio")
  /\ UNCHANGED <<argv, fs, input_path, model_name, output_path, target_sr,
                 original_sr, audio_to_load, temp_audio_path, temp_path,
                 sysexit, exitCode, spawned, procs, tmpCreated, written,
                 removed, loaded>>

ExceptHandlerExitsZero ==
  /\ pc = "except"
  /\ sysexit' = 0
  /\ pc' = "finally"
  /\ UNCHANGED <<argv, fs, input_path, model_name, output_path, target_sr,
                 original_sr, audio_to_load, temp_audio_path, temp_path,
                 exc, exitCode, calls, spawned, procs, tmpCreated, written,
                 removed, loaded>>

(* lines 175-178: sys.exit(1) raises SystemExit through the finally *)
ExceptHandler ==
  /\ pc = "except"
  /\ sysexit' = 1
  /\ pc' = "finally"
  /\ UNCHANGED <<argv, fs, input_path, model_name, output_path, target_sr,
                 original_sr, audio_to_load, temp_audio_path, temp_path,
                 exc, exitCode, calls, spawned, procs, tmpCreated, written,
                 removed, loaded>>

(* lines 179-183, then the end of the process *)
Finally ==
  /\ pc = "finally"
  /\ IF temp_audio_path # NoPath /\ temp_audio_path \in fs
     THEN /\ fs' = fs \ {temp_audio_path}
          /\ removed' = removed \cup {temp_audio_path}
     ELSE UNCHANGED <<fs, removed>>
  /\ Exit(IF sysexit = NoCode THEN 0 ELSE sysexit)
  /\ UNCHANGED <<argv, input_path, model_name, output_path, target_sr,
                 original_sr, audio_to_load, temp_audio_path, temp_path,
                 exc, sysexit, calls, spawned, procs, tmpCreated, written,
                 loaded>>

Next ==
  \/ ImportOk \/ ImportFail \/ ParseArgs
  \/ InitDfOk \/ InitDfRaise \/ Probe
  \/ VersionNotFound \/ VersionOSError \/ VersionSpawn \/ VersionWait
  \/ MkTempOk \/ MkTempRaise
  \/ ConvertOSError \/ ConvertSpawn \/ ConvertOk \/ ConvertFailed
  \/ ConvertDecodeError
  \/ LoadAudioOk \/ LoadAudioRaise \/ EnhanceOk \/ EnhanceRaise
  \/ SaveAudioOk \/ SaveAudioRaise
  \/ ExceptHandler \/ Finally

Spec == Init /\ [][Next]_vars

(* ------------------------- claim vocabulary --------------------------- *)
Done == pc = "done"

Probed == "torchaudio.info" \in calls

IsPos(t) == t.kind = "pos"

(* the index of the first positional token of the command line, 0 if none *)
FirstPos ==
  LET I == {i \in 1..Len(argv) : IsPos(argv[i])}
  IN  IF I = {} THEN 0 ELSE CHOOSE i \in I : \A j \in I : i <= j

NoHelpBefore(i) == \A j \in 1..(i - 1) : argv[j] # HelpTok

(* the command line names a file that does not exist, and no -h precedes *)
InputMissing ==
  /\ FirstPos > 0
  /\ argv[FirstPos].path \notin InitFiles
  /\ NoHelpBefore(FirstPos)

BadModel ==
  \E i \in 1..Len(argv) :
    /\ argv[i].kind = "model"
    /\ argv[i].model \notin {"DeepFilterNet", "DeepFilterNet2", "DeepFilterNet3"}
    /\ NoHelpBefore(i)

ToolErrors == {"ffmpeg_version:OSError", "ffmpeg_convert:OSError",
               "ffmpeg_convert:UnicodeDecodeError"}

PipelineErrors == ToolErrors \cup {"init_df", "mktemp:OSError", "load_audio",
                                   "enhance", "save_audio"}

Saved == output_path # NoPath /\ output_path \in written

WaitStates == {"ffmpeg_version_wait", "ffmpeg_convert_wait"}

IsExt(e) == Len(e) >= 2 /\ e[1] = "." /\ \A j \in 2..Len(e) : e[j] # "."

From(n, k) == SubSeq(n, k + 1, Len(n))

(* o is i with the fixed suffix put between i's stem and i's extension *)
ExpectedOutput(i, o) ==
  /\ o.parent = i.parent
  /\ \E k \in 1..Len(i.name) :
       /\ \/ k < Len(i.name) /\ IsExt(From(i.name, k))
          \/ k = Len(i.name) /\ \A m \in 1..(Len(i.name) - 1) : ~IsExt(From(i.name, m))
       /\ o.name = SubSeq(i.name, 1, k) \o <<"_denoise_DeepFilterNet">>
                     \o From(i.name, k)

(* ------------------------------ claims -------------------------------- *)
(* C1: on every exit path of a run, no temporary resampled file created by
   that run still exists when the process terminates. *)
C1_NoTempAtExit == Done => tmpCreated \cap fs = {}

(* C2, as stated: an exception raised by a step of main's try block ends
   the process with code 1, and the process ends with code 0 only when
   save_audio has completed. *)
C2_Original ==
  Done => /\ exc \in PipelineErrors => exitCode = 1
          /\ exitCode = 0 => Saved

(* C2, amended: an exception raised by a step of main's try block ends the
   process with code 1, and the process ends with code 0 only when
   save_audio has completed or when -h was given and argparse printed the
   help before any pipeline step. *)
C2_Amended ==
  Done => /\ exc \in PipelineErrors => exitCode = 1
          /\ exitCode = 0 =>
               \/ Saved
               \/ calls = {} /\ \E i \in 1..Len(argv) : argv[i] = HelpTok

C2_Witness == Done /\ exc = "save_audio" /\ exitCode = 1 /\ ~Saved

(* C3, as stated: when the input path of the command line does not name
   an existing file, the process exits with code 1. *)
C3_Original == Done /\ InputMissing => exitCode = 1

(* C3, amended: when the input path of the command line does not name an
   existing file (the imports having succeeded and no -h preceding the
   path), the process exits with code 2, the status of an argparse error. *)
C3_Amended == Done /\ InputMissing /\ exc # "ImportError" => exitCode = 2

C3_Witness == Done /\ argv = <<PosTok(MissingWav)>> /\ exitCode = 2

(* C4: when argument validation fails (missing input file or a model name
   outside the three choices), the process exits nonzero before any
   processing step: no init_df, no probe, no ffmpeg process, no temporary
   or output file. *)
C4_ValidationBeforeProcessing ==
  InputMissing \/ BadModel =>
    /\ calls = {} /\ spawned = 0 /\ tmpCreated = {} /\ written = {}
    /\ fs = InitFiles
    /\ Done => exitCode \in {1, 2}

C4_Witness ==
  /\ Done
  /\ argv = <<ModelTok("DeepFilterNet4"), PosTok(Wav)>>
  /\ exitCode = 2

(* C5: a failure of the external resampling tool (missing, version check
   failing, conversion returning an error, conversion failing to start) is
   never fatal: it does not reach main's exception handler, main goes on to
   load_audio on the original input path. *)
C5_ToolFailureNonFatal ==
  /\ exc \notin ToolErrors
  /\ "ffmpeg" \in calls /\ pc \in {"load_audio", "enhance", "save_audio"}
       /\ temp_audio_path = NoPath => audio_to_load = input_path

(* C6: the external tool is attempted if and only if the probed rate
   differs from the model's rate, a failed probe always counting as
   different; when the rates are equal no process is spawned, no temporary
   file is created and load_audio reads the original input path. *)
C6_ResampleIffRatesDiffer ==
  Probed =>
    /\ pc = "ffmpeg_version" => original_sr # target_sr
    /\ pc # "ffmpeg_version" => ("ffmpeg" \in calls <=> original_sr # target_sr)
    /\ original_sr = UnknownRate => pc = "ffmpeg_version" \/ "ffmpeg" \in calls
    /\ original_sr = target_sr =>
         /\ spawned = 0 /\ tmpCreated = {}
         /\ audio_to_load = input_path
         /\ loaded \in {NoPath, input_path}

C6_Witness ==
  /\ original_sr = target_sr /\ Probed
  /\ loaded = input_path /\ loaded # NoPath /\ spawned = 0

(* C7: for an input whose sample rate differs from the model's rate, the
   temporary file created during the run has been removed by process
   exit. *)
C7_TempRemovedAtExit ==
  Done /\ Probed /\ original_sr # target_sr /\ temp_path # NoPath
    => temp_path \notin fs

(* C8, as stated: a run spawns at most one external process, and that
   process has terminated before the run takes its next step. *)
C8_Original ==
  /\ spawned <= 1
  /\ procs > 0 => pc \in WaitStates

(* C8, amended: a run spawns at most two external processes, both of the
   resampling tool (the version check, then at most one conversion), never
   two at a time, and each has terminated before the run takes its next
   step. *)
C8_Amended ==
  /\ spawned <= 2
  /\ procs \in {0, 1}
  /\ procs > 0 => pc \in WaitStates
  /\ pc \in {"import", "parse_args", "init_df", "info", "ffmpeg_version"}
       => spawned = 0
  /\ pc \in {"ffmpeg_version_wait", "mktemp", "ffmpeg_convert"} => spawned = 1

C8_Witness == pc = "load_audio" /\ spawned = 2 /\ procs = 0

(* C9: for a valid input file at the model's native rate whose load,
   enhance and save steps succeed, the run writes exactly one output file,
   in the input's directory, named by the input's stem, the fixed suffix
   and the input's extension, and exits with code 0. *)
C9_OutputAtDerivedPath ==
  Done /\ Probed /\ original_sr = target_sr /\ exc = "None" =>
    /\ exitCode = 0
    /\ written = {output_path}
    /\ output_path \in fs
    /\ ExpectedOutput(input_path, output_path)

C9_Witness ==
  /\ Done /\ exitCode = 0 /\ original_sr = target_sr
  /\ input_path = TwoDots
  /\ written = {MkPath("d", <<"a", ".", "b", "_denoise_DeepFilterNet", ".", "wav">>)}

(* C10: the input file is never deleted or overwritten: the run removes
   only a temporary path that it created, ffmpeg writes only that path, and
   the output path differs from the input path. *)
C10_InputUntouched ==
  /\ InitFiles \cap removed = {}
  /\ removed \subseteq tmpCreated
  /\ tmpCreated \cap InitFiles = {}
  /\ input_path # NoPath =>
       /\ input_path \in fs
       /\ input_path \notin written
       /\ output_path # input_path
       /\ written \subseteq tmpCreated \cup {output_path}

C10_Witness ==
  /\ Done /\ input_path = OldTemp
  /\ removed # {} /\ Saved /\ OldTemp \in fs
====
